---- MODULE Spec2Model ----
(***************************************************************************)
(* Model of shopify-orders-all-open.py: the MarketTime -> Shopify draft    *)
(* order sync.  Strings are sequences of one-character strings; the        *)
(* Shopify store (orders, drafts, companies) is the environment, and every *)
(* HTTP call is one step whose response the environment chooses.           *)
(***************************************************************************)
EXTENDS Integers, Sequences, FiniteSets, TLC

VARIABLES
    open_orders,    \* the OPEN MarketTime records of the run (line 839)
    idx,            \* position of the main loop in open_orders (line 861)
    pc,             \* the statement the script is at
    run,            \* 1 = first execution of the script, 2 = re-execution
    seen_pos,       \* _seen_pos (line 852)
    exported_rows,  \* exported_rows (line 853)
    csv,            \* the report file written by export_rows_to_csv, or "none"
    orders,         \* Shopify finalized orders
    drafts,         \* Shopify draft orders, in REST listing order
    companies,      \* names of the Shopify companies
    company_cache,  \* _company_id_cache (line 237)
    customer_id,    \* locals of the loop body (lines 877-966)
    company_id,
    location_id,
    contact_id,
    result,         \* po_exists_in_shopify returned "true" or "false"; "none" until it returns
    status_i,       \* index of the REST status being scanned (line 606)
    pages,          \* pages (line 609)
    qlog,           \* history: the dedupe queries issued for the current record
    hit_len,        \* history: Len(qlog) when a stage first reported a match, else -1
    delivered,      \* history: a response carried an object with the record's normalized PO
    rest_fault,     \* history: a REST page request failed or its Link header was unusable
    fault,          \* history: some call failed or was rejected, or a scan was cut short
    created,        \* history: the successful draftOrderCreate calls of this execution
    create_failed,  \* history: positions of the records whose draftOrderCreate failed
    abort_by,       \* history: the call whose error ended the script, or "none"
    locations,      \* the locations of one Shopify company, in listing order
    location_cache, \* _location_id_cache (line 238)
    loc_log,        \* history: the ensure_company_location calls made so far
    contacts,       \* the contacts of one Shopify company, in listing order
    contact_log,    \* history: the get_or_create_matching_contact calls made so far
    customers,      \* the Shopify customers
    buyer_log,      \* history: the buyer resolutions made so far
    shop_companies, \* the names of the Shopify companies, in id order
    company_ids,    \* _company_id_cache (line 237) as name -> id pairs
    company_log,    \* history: the ensure_company calls made so far
    po_a,           \* a purchase-order spelling handed to norm_po
    po_b,           \* a spelling derived from po_a
    offset,         \* offset of fetch_all_mt_orders (line 512)
    all_orders,     \* all_orders (line 511), as the keys of its records
    total_reported, \* total_reported (line 515), -1 for None
    fetch_log,      \* history: the pages fetch_all_mt_orders received
    attempt,        \* attempt of request_with_retries (line 85), 0 outside a call
    last_exc,       \* last of request_with_retries (line 84), "none" for None
    call_log,       \* history: the HTTP attempts, waits, returns and raises so far
    draft_req,      \* the draftOrderCreate input sent for the record just processed
    tag_order,      \* the source record handed to create_draft_order_graphql
    draft_tags      \* the list tags (line 737) built for tag_order, <<>> before

vars == <<open_orders, idx, pc, run, seen_pos, exported_rows, csv, orders, drafts,
          companies, company_cache, customer_id, company_id, location_id, contact_id,
          result, status_i, pages, qlog, hit_len, delivered, rest_fault, fault,
          created, create_failed, abort_by,
          locations, location_cache, loc_log, contacts, contact_log, customers,
          buyer_log, shop_companies, company_ids, company_log, po_a, po_b, offset,
          all_orders, total_reported, fetch_log, attempt, last_exc, call_log,
          draft_req, tag_order, draft_tags>>

\* Each component below has its own specification; the variables of the
\* components a specification does not exercise stay as they are.
loc_vars == <<locations, location_cache, loc_log>>
contact_vars == <<contacts, contact_log>>
buyer_vars == <<customers, buyer_log>>
norm_vars == <<po_a, po_b>>
fetch_vars == <<offset, all_orders, total_reported, fetch_log>>
co_vars == <<shop_companies, company_ids, company_log>>
retry_vars == <<attempt, last_exc, call_log>>
tag_vars == <<tag_order, draft_tags>>
comp_vars == <<loc_vars, contact_vars, buyer_vars, co_vars, norm_vars, fetch_vars,
               retry_vars, tag_vars>>

\* what most steps of the main loop leave alone
side_vars == <<comp_vars, draft_req>>

\* the variables of the main loop other than pc and abort_by
script_vars == <<open_orders, idx, run, seen_pos, exported_rows, csv, orders, drafts,
                 companies, company_cache, customer_id, company_id, location_id,
                 contact_id, result, status_i, pages, qlog, hit_len, delivered,
                 rest_fault, fault, created, create_failed, draft_req>>

\* the main loop is not running
ScriptIdle ==
    /\ open_orders = <<>>
    /\ idx = 1
    /\ run = 1
    /\ seen_pos = {}
    /\ exported_rows = <<>>
    /\ csv = "none"
    /\ orders = {}
    /\ drafts = <<>>
    /\ companies = {}
    /\ company_cache = {}
    /\ customer_id = "none"
    /\ company_id = "none"
    /\ location_id = "none"
    /\ contact_id = "none"
    /\ result = "none"
    /\ status_i = 1
    /\ pages = 0
    /\ qlog = <<>>
    /\ hit_len = -1
    /\ delivered = FALSE
    /\ rest_fault = FALSE
    /\ fault = FALSE
    /\ created = <<>>
    /\ create_failed = {}
    /\ draft_req = <<>>

LocIdle == locations = <<>> /\ location_cache = {} /\ loc_log = <<>>

ContactIdle == contacts = <<>> /\ contact_log = <<>>

BuyerIdle == customers = <<>> /\ buyer_log = <<>>

CompanyIdle == shop_companies = <<>> /\ company_ids = {} /\ company_log = <<>>

NormIdle == po_a = <<>> /\ po_b = <<>>

FetchIdle == offset = 0 /\ all_orders = <<>> /\ total_reported = -1 /\ fetch_log = <<>>

RetryIdle == attempt = 0 /\ last_exc = "none" /\ call_log = <<>>

TagIdle == tag_order = [recordID |-> <<>>, repGroupID |-> <<>>, retailerID |-> <<>>,
                         manufacturerID |-> <<>>] /\ draft_tags = <<>>

\* the helpers a component specification leaves alone besides the ones it
\* names itself
rest_vars == <<retry_vars, tag_vars>>

RestIdle == RetryIdle /\ TagIdle

CompIdle ==
    LocIdle /\ ContactIdle /\ BuyerIdle /\ CompanyIdle /\ NormIdle /\ FetchIdle /\ RestIdle

SideIdle == CompIdle /\ draft_req = <<>>

(***************************************************************************)
(* Bounds of the model                                                     *)
(***************************************************************************)
MaxRecords == 2        \* open records per run
MaxDrafts == 2         \* drafts the store holds before the run

(***************************************************************************)
(* Program constants.  The page size and page cap are scaled down: the     *)
(* code's 250 drafts per page and 100 pages per status behave the same way *)
(* with 1 draft per page and 2 pages per status.                           *)
(***************************************************************************)
REST_PAGE_LIMIT == 1
MAX_PAGES_PER_STATUS == 2

(***************************************************************************)
(* Strings                                                                 *)
(***************************************************************************)
Whitespace == {" "}

Upper(c) == CASE c = "a" -> "A" [] c = "b" -> "B" [] OTHER -> c

RECURSIVE LStrip(_)
LStrip(s) == IF s # <<>> /\ Head(s) \in Whitespace THEN LStrip(Tail(s)) ELSE s

RECURSIVE RStrip(_)
RStrip(s) ==
    IF s # <<>> /\ s[Len(s)] \in Whitespace THEN RStrip(SubSeq(s, 1, Len(s) - 1)) ELSE s

Strip(s) == RStrip(LStrip(s))

IsHashOrSpace(c) == c = "#" \/ c \in Whitespace

\* nothing is deleted
NormKeep_All(c) == TRUE

\* the characters _norm_hash_space (line 126) leaves in place
NormKeep(c) == ~IsHashOrSpace(c)

\* norm_po: strip, delete every '#' and whitespace character, upper-case.
\* A missing poNumber (None) is the empty string, as str(po or "") makes it.
norm_po(po) ==
    LET kept == SelectSeq(Strip(po), NormKeep)
    IN  [i \in 1..Len(kept) |-> Upper(kept[i])]

\* Python's  needle in hay  for strings
IsSubstring(needle, hay) ==
    \E i \in 0..(Len(hay) - Len(needle)) : SubSeq(hay, i + 1, i + Len(needle)) = needle

RECURSIVE Join(_)
Join(tags) ==
    IF tags = <<>> THEN <<>>
    ELSE IF Len(tags) = 1 THEN tags[1]
    ELSE tags[1] \o <<",">> \o Join(Tail(tags))

\* str(record_id): a missing recordID prints as None in the tag
RecordIdStr(rid) == IF rid = <<>> THEN <<"None">> ELSE rid

\* f"mt_recordID:{id}"; the fixed prefix is one token of the string
RecordTag(rid) == <<"mt_recordID:">> \o rid

(***************************************************************************)
(* The data the model draws from                                           *)
(***************************************************************************)
POs == { <<>>, <<"#">>, <<"a">>, <<"#", "A">>, <<"b">> }
\* <<>> is a record without recordID
RecordIds == { <<>>, <<"1">>, <<"1", "2">> }
CompanyNames == { "", "Acme" }

Records == [rid : RecordIds, po : POs, co : CompanyNames]

RestStatuses == <<"open", "invoice_sent">>

\* a record of the source API as far as its tags go; <<>> is a value that is
\* missing, None, empty or 0
NoOrder == [recordID |-> <<>>, repGroupID |-> <<>>, retailerID |-> <<>>,
            manufacturerID |-> <<>>]

\* the identifier tag is appended whatever the value
OptionalTag_Always(prefix, value) == << <<prefix>> \o value >>

\* lines 741-748: if value: tags.append(f"{prefix}{value}")
OptionalTag(prefix, value) == IF value # <<>> THEN << <<prefix>> \o value >> ELSE <<>>

\* lines 737-748: the tags of the DraftOrderInput
BuildTags(order) ==
    << <<"markettime">>, RecordTag(RecordIdStr(order.recordID)) >>
        \o OptionalTag("mt_repGroupID:", order.repGroupID)
        \o OptionalTag("mt_retailerID:", order.retailerID)
        \o OptionalTag("mt_manufacturerID:", order.manufacturerID)

\* the tag list create_draft_order_graphql gives a draft (lines 737-748) of a
\* record that has no rep group, retailer or manufacturer id
DraftTags(rid) == BuildTags([NoOrder EXCEPT !.recordID = rid])

StoreDrafts ==
    { [po |-> <<"A">>, tags |-> <<>>, status |-> "open"],
      [po |-> <<"a">>, tags |-> <<>>, status |-> "invoice_sent"],
      [po |-> <<"b">>, tags |-> DraftTags(<<"1", "2">>), status |-> "open"],
      [po |-> <<>>, tags |-> <<>>, status |-> "open"],
      [po |-> <<"b">>, tags |-> <<>>, status |-> "completed"] }

StoreOrders ==
    { [po |-> <<"A">>, cancelled |-> FALSE],
      [po |-> <<"b">>, cancelled |-> TRUE],
      [po |-> <<>>, cancelled |-> FALSE] }

SeqsUpTo(S, n) == UNION { [1..k -> S] : k \in 0..n }

Cur == open_orders[idx]

\* str(record_id) if record_id else None  (line 970); <<>> stands for None
mt_record_id == Cur.rid

(***************************************************************************)
(* po_exists_in_shopify and its stages (lines 557-679)                     *)
(***************************************************************************)
\* target = norm_po(po)  (line 654)
target_po == norm_po(Cur.po)

\* What a search of the graph surface can answer: the call fails, or it
\* returns at most one node (first: 1).  Which node the search engine ranks
\* first is not under the program's control, so any node may come back.
GraphResponses(nodes) ==
    { [ok |-> FALSE, edges |-> <<>>], [ok |-> TRUE, edges |-> <<>>] }
        \cup { [ok |-> TRUE, edges |-> <<n>>] : n \in nodes }

Range(s) == { s[i] : i \in 1..Len(s) }

\* line 668
OrderMatches(node) == norm_po(node.po) = target_po

\* line 574
DraftNodeMatchesPO(node) == norm_po(node.po) = norm_po(Cur.po)

\* lines 577-582 and 624: the identifier tag is looked for as a substring
TagMatches(rid, tags) == rid # <<>> /\ IsSubstring(RecordTag(rid), Join(tags))

TagBlobMatches(tags) == TagMatches(mt_record_id, tags)

\* RestDraftMatches without the PO comparison
RestDraftMatches_TagOnly(d) == TagBlobMatches(d.tags)

\* lines 620-626
RestDraftMatches(d) ==
    \/ norm_po(d.po) # <<>> /\ norm_po(d.po) = target_po
    \/ TagBlobMatches(d.tags)

\* AfterOrderStage without the return on a validated order
AfterOrderStage_FallThrough(hit) == "dg1"

\* lines 666-672: a validated order returns True, anything else falls through
AfterOrderStage(hit) == IF hit THEN "ret" ELSE "dg1"

\* lines 563-597: a validated draft returns True; otherwise the next pattern,
\* then the tag query when a record id was given, then the REST stage
AfterDraftQuery(hit) ==
    IF hit THEN "ret"
    ELSE IF pc = "dg1" THEN "dg2"
    ELSE IF mt_record_id # <<>> THEN "dg3"
    ELSE "rest"

\* lines 592-594
AfterTagQuery(hit) == IF hit THEN "ret" ELSE "rest"

\* the exception is caught per pattern: the unquoted query still runs
AfterDraftFailure_NextPattern == IF pc = "dg1" THEN "dg2" ELSE "rest"

\* lines 562, 595-597: one try around all the queries of the stage; an
\* exception of shopify_graphql leaves it with return False
AfterDraftFailure == "rest"

\* PageCapReached with  >  for  >=
PageCapReached_OffByOne(p) == p > MAX_PAGES_PER_STATUS

\* line 642
PageCapReached(p) == p >= MAX_PAGES_PER_STATUS

DraftsOfStatus(s) == SelectSeq(drafts, LAMBDA d : d.status = s)

Min(a, b) == IF a < b THEN a ELSE b

\* the drafts the store lists on page p of status s
RestPageOf(s, p) ==
    LET all == DraftsOfStatus(s)
    IN  SubSeq(all, (p - 1) * REST_PAGE_LIMIT + 1, Min(p * REST_PAGE_LIMIT, Len(all)))

MoreRemain(s, p) == Len(DraftsOfStatus(s)) > p * REST_PAGE_LIMIT

\* The Link header of a page: a next link is present while drafts remain, and
\* the store may also send one (or an unparsable one) on any page.
LinkHeaders(s, p) == IF MoreRemain(s, p) THEN {"next", "bad"} ELSE {"next", "bad", "absent"}

run_locals == <<customer_id, company_id, location_id, contact_id>>
run_state == <<side_vars, open_orders, idx, run, seen_pos, exported_rows, csv, orders, drafts,
               companies, company_cache, created, create_failed, abort_by>>

\* po_exists_in_shopify, orders stage (lines 656-672)
OrderQuery ==
    /\ pc = "order"
    /\ \E r \in GraphResponses({ o \in orders : ~o.cancelled }) :
         LET hit == r.ok /\ \E n \in Range(r.edges) : OrderMatches(n)
             next == AfterOrderStage(hit)
         IN  /\ pc' = next
             /\ result' = IF next = "ret" THEN "true" ELSE result
             /\ qlog' = Append(qlog, [q |-> "order", ok |-> r.ok])
             /\ hit_len' = IF hit THEN Len(qlog) + 1 ELSE hit_len
             /\ delivered' = (r.ok /\ \E n \in Range(r.edges) : norm_po(n.po) = target_po)
             /\ fault' = (fault \/ ~r.ok)
    /\ UNCHANGED <<run_state, run_locals, status_i, pages, rest_fault>>

\* _draft_exists_graphql, the quoted and the unquoted PO query (lines 563-582)
DraftQueryPO ==
    /\ pc \in {"dg1", "dg2"}
    /\ \E r \in GraphResponses(Range(drafts)) :
         LET hit == r.ok /\ \E n \in Range(r.edges) :
                               DraftNodeMatchesPO(n) \/ TagBlobMatches(n.tags)
             next == IF r.ok THEN AfterDraftQuery(hit) ELSE AfterDraftFailure
         IN  /\ pc' = next
             /\ result' = IF next = "ret" THEN "true" ELSE result
             /\ qlog' = Append(qlog, [q |-> IF pc = "dg1" THEN "dg_quoted" ELSE "dg_unquoted",
                                      ok |-> r.ok])
             /\ hit_len' = IF hit /\ hit_len = -1 THEN Len(qlog) + 1 ELSE hit_len
             /\ delivered' = (delivered \/
                                (r.ok /\ \E n \in Range(r.edges) : norm_po(n.po) = target_po))
             /\ fault' = (fault \/ ~r.ok)
    /\ UNCHANGED <<run_state, run_locals, status_i, pages, rest_fault>>

\* _draft_exists_graphql, the identifier-tag query (lines 583-594)
DraftQueryTag ==
    /\ pc = "dg3"
    /\ \E r \in GraphResponses(Range(drafts)) :
         LET hit == r.ok /\ r.edges # <<>>
             next == IF r.ok THEN AfterTagQuery(hit) ELSE AfterDraftFailure
         IN  /\ pc' = next
             /\ result' = IF next = "ret" THEN "true" ELSE result
             /\ qlog' = Append(qlog, [q |-> "dg_tag", ok |-> r.ok])
             /\ hit_len' = IF hit /\ hit_len = -1 THEN Len(qlog) + 1 ELSE hit_len
             /\ fault' = (fault \/ ~r.ok)
    /\ UNCHANGED <<run_state, run_locals, status_i, pages, rest_fault, delivered>>

\* _rest_draft_exists: one iteration of the while loop (lines 610-646); leaving
\* the loop of the last status returns False (line 647)
RestPage ==
    /\ pc = "rest"
    /\ LET s == RestStatuses[status_i]
           p == pages + 1
           page == RestPageOf(s, p)
           last == status_i = Len(RestStatuses)
       IN  \E ok \in BOOLEAN, link \in LinkHeaders(s, p) :
             LET hit == ok /\ \E d \in Range(page) : RestDraftMatches(d)
                 stay == ok /\ ~hit /\ link = "next" /\ ~PageCapReached(p)
             IN  /\ qlog' = Append(qlog, [q |-> "rest_" \o s, ok |-> ok])
                 /\ hit_len' = IF hit /\ hit_len = -1 THEN Len(qlog) + 1 ELSE hit_len
                 /\ delivered' = (delivered \/
                       (ok /\ \E d \in Range(page) :
                                 norm_po(d.po) # <<>> /\ norm_po(d.po) = target_po))
                 /\ rest_fault' = (rest_fault \/ ~ok \/ (~hit /\ link = "bad"))
                 /\ fault' = (fault \/ ~ok \/
                                (~hit /\ (link = "bad" \/ (link = "next" /\ PageCapReached(p)))))
                 /\ IF hit
                       THEN pc' = "ret" /\ result' = "true" /\ pages' = p /\ status_i' = status_i
                    ELSE IF stay
                       THEN pc' = "rest" /\ result' = result /\ pages' = p
                            /\ status_i' = status_i
                    ELSE IF ~last
                       THEN pc' = "rest" /\ result' = result /\ pages' = 0
                            /\ status_i' = status_i + 1
                    ELSE pc' = "ret" /\ result' = "false" /\ pages' = p
                         /\ status_i' = status_i
    /\ UNCHANGED <<run_state, run_locals>>

(***************************************************************************)
(* The duplicate check on its own: one call of po_exists_in_shopify for a  *)
(* record with a purchase-order number, against any store.                 *)
(***************************************************************************)
InitDedupe ==
    /\ open_orders \in { <<r>> : r \in { x \in Records : x.po # <<>> /\ x.co = "" } }
    /\ idx = 1
    /\ pc = "order"
    /\ run = 1
    /\ seen_pos = {}
    /\ exported_rows = <<>>
    /\ csv = "none"
    /\ orders \in SUBSET StoreOrders
    /\ drafts \in SeqsUpTo(StoreDrafts, MaxDrafts)
    /\ companies = {}
    /\ company_cache = {}
    /\ customer_id = "none"
    /\ company_id = "none"
    /\ location_id = "none"
    /\ contact_id = "none"
    /\ result = "none"
    /\ status_i = 1
    /\ pages = 0
    /\ qlog = <<>>
    /\ hit_len = -1
    /\ delivered = FALSE
    /\ rest_fault = FALSE
    /\ fault = FALSE
    /\ created = <<>>
    /\ create_failed = {}
    /\ abort_by = "none"
    /\ SideIdle

NextDedupe == OrderQuery \/ DraftQueryPO \/ DraftQueryTag \/ RestPage

SpecDedupe == InitDedupe /\ [][NextDedupe]_vars

(***************************************************************************)
(* The main loop (lines 861-997) and the report (lines 1000-1002)          *)
(***************************************************************************)
\* the records a run is drawn from
RunRecords ==
    { [rid |-> <<"1">>, po |-> <<"a">>, co |-> "Acme"],
      [rid |-> <<"1", "2">>, po |-> <<"#", "A">>, co |-> ""],
      [rid |-> <<"1">>, po |-> <<>>, co |-> ""],
      [rid |-> <<>>, po |-> <<"b">>, co |-> "Acme"],
      [rid |-> <<"1", "2">>, po |-> <<"#">>, co |-> ""] }

\* what the store holds when the first run starts
RunStoreOrders == { {}, {[po |-> <<"A">>, cancelled |-> FALSE]} }
RunStoreDrafts ==
    { <<>>,
      <<[po |-> <<"A">>, tags |-> <<>>, status |-> "open"]>>,
      <<[po |-> <<"b">>, tags |-> DraftTags(<<"1", "2">>), status |-> "open"]>> }

\* fetch_all_mt_orders keeps one record per recordID (lines 533-538)
DistinctIds(recs) ==
    \A i, j \in 1..Len(recs) : i # j => recs[i].rid # recs[j].rid

\* SeenSkip without the seen-set test
SeenSkip_Never(po_norm) == FALSE

\* only a record that has a key is skipped
SeenSkip_NonEmpty(po_norm) == po_norm # <<>> /\ po_norm \in seen_pos

\* line 873
SeenSkip(po_norm) == po_norm \in seen_pos

\* the draft creation without its try/except
OnDraftCreateError_Uncaught == "crash"

\* lines 978-982: any exception of create_draft_order_graphql is caught and the
\* loop continues with the next record
OnDraftCreateError == "continue"

\* lines 877-879, 923, 939, 949: no handler around the buyer search and creation
OnCustomerError == "crash"

\* line 953: no handler around ensure_company; create_company raises
\* RuntimeError on userErrors or a missing id (lines 261-265)
OnCompanyError == "crash"

\* line 958: no handler around ensure_company_location (its queries at lines
\* 327 and 399 are outside any try)
OnLocationError == "crash"

\* line 962: no handler around get_or_create_matching_contact
OnContactError == "crash"

\* line 966: no handler around grant_ordering_permission (lines 474, 499)
OnGrantError == "crash"

ResetCheck ==
    /\ result' = "none"
    /\ status_i' = 1
    /\ pages' = 0
    /\ qlog' = <<>>
    /\ hit_len' = -1
    /\ delivered' = FALSE
    /\ rest_fault' = FALSE

ResetLocals ==
    /\ customer_id' = "none"
    /\ company_id' = "none"
    /\ location_id' = "none"
    /\ contact_id' = "none"

\* continue / end of the loop body: the next record, or the code after the loop
Continue ==
    /\ IF idx < Len(open_orders)
          THEN idx' = idx + 1 /\ pc' = "begin"
          ELSE idx' = idx /\ pc' = "export"
    /\ ResetLocals
    /\ ResetCheck

\* an exception nothing catches ends the script
Crash(call) ==
    /\ pc' = "crashed"
    /\ abort_by' = call
    /\ fault' = TRUE
    /\ UNCHANGED <<side_vars, open_orders, idx, run, seen_pos, exported_rows, csv, orders, drafts,
                   companies, company_cache, created, create_failed, run_locals,
                   result, status_i, pages, qlog, hit_len, delivered, rest_fault>>

\* a handled failure that ends the work on the current record
SkipRecord ==
    /\ Continue
    /\ fault' = TRUE
    /\ UNCHANGED <<side_vars, open_orders, run, seen_pos, exported_rows, csv, orders, drafts,
                   companies, company_cache, created, create_failed, abort_by>>

Handle(handler, call) == IF handler = "crash" THEN Crash(call) ELSE SkipRecord

check_state == <<result, status_i, pages, qlog, hit_len, delivered, rest_fault>>

\* lines 862-875
BeginRecord ==
    /\ pc = "begin"
    /\ IF SeenSkip(norm_po(Cur.po))
          THEN Continue
          ELSE /\ pc' = "customer"
               /\ UNCHANGED <<idx, run_locals, check_state>>
    /\ draft_req' = <<>>
    /\ UNCHANGED <<comp_vars, open_orders, run, seen_pos, exported_rows, csv, orders, drafts,
                   companies, company_cache, created, create_failed, abort_by, fault>>

\* lines 877-951: the buyer is found, created, rejected with 422 (the record is
\* skipped), or a request raises
ResolveCustomer ==
    /\ pc = "customer"
    /\ \E outcome \in {"found", "created", "rejected", "error"} :
         CASE outcome \in {"found", "created"} ->
                /\ customer_id' = "customer"
                /\ pc' = "company"
                /\ UNCHANGED <<side_vars, open_orders, idx, run, seen_pos, exported_rows, csv, orders,
                               drafts, companies, company_cache, created, create_failed,
                               abort_by, fault, company_id, location_id, contact_id,
                               check_state>>
           [] outcome = "rejected" -> SkipRecord
           [] outcome = "error" -> Handle(OnCustomerError, "customer")

\* line 953 with ensure_company, find_company_by_name, create_company
\* (lines 240-277)
EnsureCompany ==
    /\ pc = "company"
    /\ LET name == Cur.co
           resolved(id) ==
               /\ company_id' = id
               /\ pc' = IF id = "none" THEN "gate" ELSE "location"
               /\ UNCHANGED <<side_vars, open_orders, idx, run, seen_pos, exported_rows, csv, orders,
                              drafts, created, create_failed, abort_by, customer_id,
                              location_id, contact_id, check_state>>
       IN  IF name = ""
              THEN resolved("none") /\ UNCHANGED <<companies, company_cache, fault>>
           ELSE IF name \in company_cache
              THEN resolved(name) /\ UNCHANGED <<companies, company_cache, fault>>
           ELSE \E outcome \in {"ok", "rejected", "error"} :
                  CASE outcome = "ok" ->
                         /\ resolved(name)
                         /\ companies' = companies \cup {name}
                         /\ company_cache' = company_cache \cup {name}
                         /\ UNCHANGED fault
                    [] outcome = "rejected" ->
                         /\ name \notin companies
                         /\ Handle(OnCompanyError, "companyCreate rejected")
                    [] outcome = "error" -> Handle(OnCompanyError, "company")

\* line 958 with ensure_company_location (lines 302-407): an id, None when
\* companyLocationCreate answers userErrors, or a query raises
EnsureLocation ==
    /\ pc = "location"
    /\ \E outcome \in {"ok", "none", "error"} :
         CASE outcome = "ok" ->
                /\ location_id' = "location"
                /\ pc' = IF customer_id # "none" THEN "contact" ELSE "gate"
                /\ UNCHANGED <<side_vars, open_orders, idx, run, seen_pos, exported_rows, csv, orders,
                               drafts, companies, company_cache, created, create_failed,
                               abort_by, fault, customer_id, company_id, contact_id,
                               check_state>>
           [] outcome = "none" ->
                /\ location_id' = "none"
                /\ pc' = "gate"
                /\ fault' = TRUE
                /\ UNCHANGED <<side_vars, open_orders, idx, run, seen_pos, exported_rows, csv, orders,
                               drafts, companies, company_cache, created, create_failed,
                               abort_by, customer_id, company_id, contact_id, check_state>>
           [] outcome = "error" -> Handle(OnLocationError, "location")

\* line 962 with get_or_create_matching_contact (lines 433-459)
ResolveContact ==
    /\ pc = "contact"
    /\ \E outcome \in {"ok", "none", "error"} :
         CASE outcome = "ok" ->
                /\ contact_id' = "contact"
                /\ pc' = "grant"
                /\ UNCHANGED <<side_vars, open_orders, idx, run, seen_pos, exported_rows, csv, orders,
                               drafts, companies, company_cache, created, create_failed,
                               abort_by, fault, customer_id, company_id, location_id,
                               check_state>>
           [] outcome = "none" ->
                /\ contact_id' = "none"
                /\ pc' = "gate"
                /\ fault' = TRUE
                /\ UNCHANGED <<side_vars, open_orders, idx, run, seen_pos, exported_rows, csv, orders,
                               drafts, companies, company_cache, created, create_failed,
                               abort_by, customer_id, company_id, location_id, check_state>>
           [] outcome = "error" -> Handle(OnContactError, "contact")

\* line 966 with grant_ordering_permission (lines 483-507): the role is assigned
\* or the grant is given up (missing role, userErrors), or a query raises
GrantPermission ==
    /\ pc = "grant"
    /\ \E outcome \in {"ok", "given up", "error"} :
         CASE outcome \in {"ok", "given up"} ->
                /\ pc' = "gate"
                /\ fault' = (fault \/ outcome = "given up")
                /\ UNCHANGED <<side_vars, open_orders, idx, run, seen_pos, exported_rows, csv, orders,
                               drafts, companies, company_cache, created, create_failed,
                               abort_by, run_locals, check_state>>
           [] outcome = "error" -> Handle(OnGrantError, "grant")

\* line 970, left operand: po_exists_in_shopify is called only for a record
\* that has a poNumber
DedupeCall ==
    /\ pc = "gate"
    /\ pc' = IF Cur.po # <<>> THEN "order" ELSE "create"
    /\ UNCHANGED <<run_state, run_locals, check_state, fault>>

\* lines 970-974: the PO exists, so the record is skipped and its key marked
DedupeReturn ==
    /\ pc = "ret"
    /\ IF result = "true"
          THEN /\ seen_pos' = seen_pos \cup {norm_po(Cur.po)}
               /\ Continue
          ELSE /\ pc' = "create"
               /\ UNCHANGED <<seen_pos, idx, run_locals, check_state>>
    /\ UNCHANGED <<side_vars, open_orders, run, exported_rows, csv, orders, drafts, companies,
                   company_cache, created, create_failed, abort_by, fault>>

\* lines 776-785: the purchasing entity is given by company, or by customer
\* whenever a company is known
PurchasingEntity_AnyCompany(customer, company, contact, location) ==
    IF company # "none" THEN "purchasingCompany"
    ELSE IF customer # "none" THEN "customerId"
    ELSE "absent"

\* lines 776-785: the purchasingEntity of the DraftOrderInput
PurchasingEntity(customer, company, contact, location) ==
    IF company # "none" /\ contact # "none" /\ location # "none"
       THEN "purchasingCompany"
    ELSE IF customer # "none" THEN "customerId"
    ELSE "absent"

\* the key is marked whether or not the draft was created
SeenAfterCreate_Always(ok) == seen_pos \cup {norm_po(Cur.po)}

\* lines 978-996: _seen_pos.add(po_norm) comes after the try, which leaves the
\* iteration with continue when the creation raised
SeenAfterCreate(ok) == IF ok THEN seen_pos \cup {norm_po(Cur.po)} ELSE seen_pos

\* the row names the first draft of the store
ReportRow_FirstDraft(order, draft_id) ==
    [mt_recordID |-> order.rid, draft |-> 1, poNumber |-> order.po]

\* lines 986-994: the row appended to exported_rows for a created draft
ReportRow(order, draft_id) ==
    [mt_recordID |-> order.rid, draft |-> draft_id, poNumber |-> order.po]

\* the request create_draft_order_graphql posts (line 794) for the current
\* record, with what the loop had resolved and the answer of the duplicate
\* check of this iteration ("none" when it was not called)
DraftInput ==
    [rec |-> idx,
     entity |-> PurchasingEntity(customer_id, company_id, contact_id, location_id),
     company |-> company_id, contact |-> contact_id, location |-> location_id,
     check |-> result]

\* lines 976-997 with create_draft_order_graphql (lines 710-803): the draft is
\* created, the request fails or is answered with userErrors, or the function
\* raises before it posts (the variant lookup of line 726)
CreateDraft ==
    /\ pc = "create"
    /\ \E outcome \in {"ok", "failed", "no_request"} :
         /\ draft_req' = IF outcome = "no_request" THEN <<>> ELSE <<DraftInput>>
         /\ IF outcome = "ok"
            THEN /\ drafts' = Append(drafts, [po |-> Cur.po, tags |-> DraftTags(Cur.rid),
                                              status |-> "open"])
                 /\ exported_rows' = Append(exported_rows, ReportRow(Cur, Len(drafts) + 1))
                 /\ created' = Append(created, [rec |-> idx, draft |-> Len(drafts) + 1])
                 /\ seen_pos' = SeenAfterCreate(TRUE)
                 /\ Continue
                 /\ UNCHANGED <<comp_vars, open_orders, run, csv, orders, companies, company_cache,
                                create_failed, abort_by, fault>>
            ELSE /\ create_failed' = create_failed \cup {idx}
                 /\ IF OnDraftCreateError = "crash"
                       THEN /\ pc' = "crashed"
                            /\ abort_by' = "draftOrderCreate"
                            /\ UNCHANGED <<idx, run_locals, check_state>>
                       ELSE Continue /\ UNCHANGED abort_by
                 /\ fault' = TRUE
                 /\ seen_pos' = SeenAfterCreate(FALSE)
                 /\ UNCHANGED <<comp_vars, open_orders, run, exported_rows, csv, orders,
                                drafts, companies, company_cache, created>>

\* lines 1000-1002 with export_rows_to_csv (lines 147-158)
ExportCsv ==
    /\ pc = "export"
    /\ csv' = IF exported_rows = <<>> THEN "none" ELSE exported_rows
    /\ pc' = "done"
    /\ draft_req' = <<>>
    /\ UNCHANGED <<comp_vars, open_orders, idx, run, seen_pos, exported_rows, orders, drafts,
                   companies, company_cache, created, create_failed, abort_by, fault,
                   run_locals, check_state>>

\* the script is executed again on the same source records, after a first
\* execution in which no call failed: module state (lines 237-238, 852-853)
\* starts empty, the store is as the first run left it
Rerun ==
    /\ pc = "done"
    /\ run = 1
    /\ ~fault
    /\ run' = 2
    /\ idx' = 1
    /\ pc' = "begin"
    /\ seen_pos' = {}
    /\ exported_rows' = <<>>
    /\ csv' = "none"
    /\ company_cache' = {}
    /\ created' = <<>>
    /\ create_failed' = {}
    /\ UNCHANGED <<side_vars, open_orders, orders, drafts, companies, abort_by, fault, run_locals,
                   check_state>>

Init ==
    /\ open_orders \in { s \in SeqsUpTo(RunRecords, MaxRecords) : s # <<>> /\ DistinctIds(s) }
    /\ idx = 1
    /\ pc = "begin"
    /\ run = 1
    /\ seen_pos = {}
    /\ exported_rows = <<>>
    /\ csv = "none"
    /\ orders \in RunStoreOrders
    /\ drafts \in RunStoreDrafts
    /\ companies = {}
    /\ company_cache = {}
    /\ customer_id = "none"
    /\ company_id = "none"
    /\ location_id = "none"
    /\ contact_id = "none"
    /\ result = "none"
    /\ status_i = 1
    /\ pages = 0
    /\ qlog = <<>>
    /\ hit_len = -1
    /\ delivered = FALSE
    /\ rest_fault = FALSE
    /\ fault = FALSE
    /\ created = <<>>
    /\ create_failed = {}
    /\ abort_by = "none"
    /\ SideIdle

Next ==
    \/ BeginRecord
    \/ ResolveCustomer
    \/ EnsureCompany
    \/ EnsureLocation
    \/ ResolveContact
    \/ GrantPermission
    \/ DedupeCall
    \/ OrderQuery
    \/ DraftQueryPO
    \/ DraftQueryTag
    \/ RestPage
    \/ DedupeReturn
    \/ CreateDraft
    \/ ExportCsv
    \/ Rerun

Spec == Init /\ [][Next]_vars

\* Every call has a timeout (HTTP_TIMEOUT, line 51), so the script never waits
\* forever: a step that can be taken is taken.
LiveDedupe == SpecDedupe /\ WF_vars(NextDedupe)

(***************************************************************************)
(* ensure_company_location (lines 302-407) on the locations of one         *)
(* company.  A location is its name and whether its shipping and billing   *)
(* address have an address1; its id is its position in the listing; 0 is   *)
(* None.  Each mutation is answered ok, with userErrors, or by an error    *)
(* that makes shopify_graphql raise.                                       *)
(***************************************************************************)
MaxLocCalls == 2       \* ensure_company_location calls per run

LowerChar(c) ==
    CASE c = "A" -> "a" [] c = "B" -> "b" [] c = "D" -> "d" [] c = "S" -> "s" [] OTHER -> c

\* str.lower()
Lower(s) == [i \in 1..Len(s) |-> LowerChar(s[i])]

\* the name of the company the locations belong to (line 329)
CompanyName == <<"A", "c">>

DefaultLabel == <<"D", "e", "f", "a", "u", "l", "t">>

\* the names the main loop passes: shipToName, or billToName (the company's
\* name) for a record without one (line 866)
LocNames == { CompanyName, <<"S", "1">>, <<"S", "1", " ">>, <<"S", "2">> }

\* whether a record has shipToAddress1 and billToAddress1
LocOrders == [ship1 : BOOLEAN, bill1 : BOOLEAN]

BlankLocs ==
    { [name |-> n, ship |-> FALSE, bill |-> FALSE] :
        n \in { CompanyName, <<>>, Lower(DefaultLabel), <<"S", "1">> } }

AddressedLocs ==
    { [name |-> <<"S", "1">>, ship |-> TRUE, bill |-> TRUE],
      [name |-> CompanyName, ship |-> TRUE, bill |-> FALSE] }

\* the company's locations before the run: at most one without addresses
InitLocations ==
    {<<>>} \cup { <<l>> : l \in BlankLocs \cup AddressedLocs }
           \cup { <<a, l>> : a \in AddressedLocs, l \in BlankLocs \cup AddressedLocs }

MutOutcomes == {"ok", "userErrors", "raise"}

\* name or "Default"  (lines 308, 332)
DesiredName(name) == IF name = <<>> THEN DefaultLabel ELSE name

\* the cache is never hit
Cached_Never(key) == FALSE

\* line 309: key in _location_id_cache
Cached(key) == \E e \in location_cache : e[1] = key

CachedId(key) == (CHOOSE e \in location_cache : e[1] = key)[2]

CachePut(key, lid) == { e \in location_cache : e[1] # key } \cup { <<key, lid>> }

\* a location is never taken for the desired one
NameMatches_Never(n, desired) == FALSE

\* line 336
NameMatches(n, desired) == Strip(n.name) = Strip(desired)

MatchIndexes(nodes, desired) == { i \in 1..Len(nodes) : NameMatches(nodes[i], desired) }

\* line 360
IsGenericName(current_name, company_name) ==
    Lower(current_name) \in { Lower(Strip(company_name)), <<"d", "e", "f", "a", "u", "l", "t">> }

\* lines 354-362
StubReusable(nodes, company_name) ==
    /\ Len(nodes) = 1
    /\ IsGenericName(Strip(nodes[1].name), company_name)
    /\ ~nodes[1].ship
    /\ ~nodes[1].bill

\* lines 338-349: the missing addresses of the matching location are assigned
\* inside one try; an address without address1 leaves the location without one
AfterExact(n, order, sa, ba) ==
    LET ship_tried == ~n.ship
        ship_raised == ship_tried /\ sa = "raise"
        bill_tried == ~ship_raised /\ ~n.bill /\ order.bill1
    IN  [n EXCEPT !.ship = n.ship \/ (ship_tried /\ sa = "ok" /\ order.ship1),
                  !.bill = n.bill \/ (bill_tried /\ ba = "ok")]

\* lines 363-383: assign the addresses in one try, rename in another
AfterStub(n, desired, order, sa, ba, rn) ==
    [name |-> IF rn = "ok" THEN desired ELSE n.name,
     ship |-> sa = "ok" /\ order.ship1,
     bill |-> sa # "raise" /\ order.bill1 /\ ba = "ok"]

\* lines 392-398: billing is the shipping address unless the record has its own
NewLocation(desired, order) ==
    [name |-> desired, ship |-> order.ship1, bill |-> order.bill1 \/ order.ship1]

not_loc == <<script_vars, contact_vars, buyer_vars, co_vars, norm_vars, fetch_vars, rest_vars>>

\* the call returns ret, leaving the store and the cache as given
LocReturn(name, order, path, ret, locs, cache) ==
    /\ locations' = locs
    /\ location_cache' = cache
    /\ loc_log' = Append(loc_log, [name |-> name, order |-> order, path |-> path,
                                   ret |-> ret, pre |-> locations])
    /\ UNCHANGED <<pc, abort_by>>

\* shopify_graphql raises out of the call (lines 327, 399); nothing catches it
\* at line 958
LocRaise(name, order, path) ==
    /\ loc_log' = Append(loc_log, [name |-> name, order |-> order, path |-> path,
                                   ret |-> -1, pre |-> locations])
    /\ pc' = "crashed"
    /\ abort_by' = "location"
    /\ UNCHANGED <<locations, location_cache>>

\* one call of ensure_company_location(company_id, name, order)
EnsureCompanyLocation ==
    /\ pc = "loc"
    /\ Len(loc_log) < MaxLocCalls
    /\ \E name \in LocNames, order \in LocOrders :
         LET key == DesiredName(name)
         IN  IF Cached(key)
                THEN LocReturn(name, order, "cache", CachedId(key), locations,
                               location_cache)
             ELSE LET nodes == locations
                      hits == MatchIndexes(nodes, key)
                      first == CHOOSE i \in hits : \A j \in hits : i <= j
                  IN  \/ LocRaise(name, order, "fetch_raise")
                      \/ IF hits # {}
                            THEN \E sa, ba \in MutOutcomes :
                                   LocReturn(name, order, "exact", first,
                                       [locations EXCEPT
                                           ![first] = AfterExact(nodes[first], order, sa, ba)],
                                       CachePut(key, first))
                         ELSE IF StubReusable(nodes, CompanyName)
                            THEN \E sa, ba, rn \in MutOutcomes :
                                   LocReturn(name, order, "stub", 1,
                                       << AfterStub(nodes[1], key, order, sa, ba, rn) >>,
                                       CachePut(key, 1))
                         ELSE \E cr \in MutOutcomes :
                                CASE cr = "raise" -> LocRaise(name, order, "create_raise")
                                  [] cr = "userErrors" ->
                                       LocReturn(name, order, "create_rejected", 0,
                                                 locations, location_cache)
                                  [] cr = "ok" ->
                                       LocReturn(name, order, "create", Len(locations) + 1,
                                                 Append(locations, NewLocation(key, order)),
                                                 CachePut(key, Len(locations) + 1))
    /\ UNCHANGED not_loc

InitLoc ==
    /\ ScriptIdle
    /\ pc = "loc"
    /\ abort_by = "none"
    /\ locations \in InitLocations
    /\ location_cache = {}
    /\ loc_log = <<>>
    /\ ContactIdle
    /\ BuyerIdle
    /\ CompanyIdle
    /\ NormIdle
    /\ FetchIdle
    /\ RestIdle

NextLoc == EnsureCompanyLocation

SpecLoc == InitLoc /\ [][NextLoc]_vars

(***************************************************************************)
(* get_or_create_matching_contact (lines 410-459) on the contacts of one   *)
(* company.  A contact is the customer it links; its id is its position in *)
(* the listing; 0 is None.  The store refuses a second contact for a       *)
(* customer with an "already associated" userError.  Pages are scaled down *)
(* from 100 contacts to 1.                                                 *)
(***************************************************************************)
MaxContacts == 2       \* contacts the company has before the run
MaxContactCalls == 2   \* get_or_create_matching_contact calls per run
ContactsPerPage == 1

\* the buyers of the records
CustomerIds == {"c1", "c2"}

\* customers linked by the company's contacts; "none" is a contact whose
\* customer is null
ContactCustomers == CustomerIds \cup {"c3", "none"}

InitContacts ==
    { c \in SeqsUpTo(ContactCustomers, MaxContacts) :
        \A i, j \in 1..Len(c) : i # j => c[i] # c[j] }

\* a contact is never taken for the customer's
ContactMatches_Never(cust_gid, target_gid) == FALSE

\* lines 436, 456
ContactMatches(cust_gid, target_gid) == cust_gid = target_gid

ContactPage(list, p) ==
    SubSeq(list, (p - 1) * ContactsPerPage + 1, Min(p * ContactsPerPage, Len(list)))

\* pageInfo.hasNextPage
HasNextPage(list, p) == Len(list) > p * ContactsPerPage

\* the for loop over iterate_company_contacts from page p on: the id of the
\* first contact of the target customer (0 if none) and the last page queried
RECURSIVE ScanContacts(_, _, _)
ScanContacts(list, target_gid, p) ==
    LET base == (p - 1) * ContactsPerPage
        page == ContactPage(list, p)
        found == { i \in 1..Len(page) : ContactMatches(page[i], target_gid) }
    IN  IF found # {}
           THEN [id |-> base + (CHOOSE i \in found : \A j \in found : i <= j), pages |-> p]
        ELSE IF HasNextPage(list, p)
           THEN ScanContacts(list, target_gid, p + 1)
        ELSE [id |-> 0, pages |-> p]

not_contact == <<script_vars, loc_vars, buyer_vars, co_vars, norm_vars, fetch_vars, rest_vars>>

ContactEntry(target, path, ret, scan, assigned, rescans, atassign) ==
    [target |-> target, path |-> path, ret |-> ret, scanned |-> scan, assigned |-> assigned,
     rescans |-> rescans, pre |-> contacts, atassign |-> atassign]

ContactReturn(entry, list) ==
    /\ contacts' = list
    /\ contact_log' = Append(contact_log, entry)
    /\ UNCHANGED <<pc, abort_by>>

\* shopify_graphql raises (lines 423, 447); nothing catches it at line 962
ContactRaise(entry, list) ==
    /\ contacts' = list
    /\ contact_log' = Append(contact_log, entry)
    /\ pc' = "crashed"
    /\ abort_by' = "contact"

\* one call of get_or_create_matching_contact(company_id, target)
GetOrCreateMatchingContact ==
    /\ pc = "contact_call"
    /\ Len(contact_log) < MaxContactCalls
    /\ \E target \in CustomerIds :
         LET s1 == ScanContacts(contacts, target, 1)
         IN  \/ \E k \in 1..s1.pages :
                  ContactRaise(ContactEntry(target, "scan_raise", -1, k - 1, FALSE, 0,
                                            contacts), contacts)
             \/ /\ s1.id # 0
                /\ ContactReturn(ContactEntry(target, "found", s1.id, s1.pages, FALSE, 0,
                                              contacts), contacts)
             \/ /\ s1.id = 0
                /\ \E race \in BOOLEAN :
                     \* someone else links the customer between the scan and the mutation
                     LET list1 == IF race THEN Append(contacts, target) ELSE contacts
                         linked == \E i \in 1..Len(list1) : list1[i] = target
                         entry(path, ret, rescans) ==
                             ContactEntry(target, path, ret, s1.pages, TRUE, rescans, list1)
                         s2 == ScanContacts(list1, target, 1)
                     IN  \/ ContactRaise(entry("assign_raise", -1, 0), list1)
                         \/ /\ ~linked
                            /\ ContactReturn(entry("created", Len(list1) + 1, 0),
                                             Append(list1, target))
                         \/ /\ ~linked
                            /\ ContactReturn(entry("rejected", 0, 0), list1)
                         \* userErrors with "already associated": one more scan
                         \/ \E k \in 1..s2.pages :
                              ContactRaise(entry("rescan_raise", -1, 1), list1)
                         \/ ContactReturn(entry("already", s2.id, 1), list1)
    /\ UNCHANGED not_contact

InitContact ==
    /\ ScriptIdle
    /\ pc = "contact_call"
    /\ abort_by = "none"
    /\ contacts \in InitContacts
    /\ contact_log = <<>>
    /\ LocIdle
    /\ BuyerIdle
    /\ CompanyIdle
    /\ NormIdle
    /\ FetchIdle
    /\ RestIdle

NextContact == GetOrCreateMatchingContact

SpecContact == InitContact /\ [][NextContact]_vars

(***************************************************************************)
(* The buyer resolution of the main loop (lines 877-951) with              *)
(* find_customer_by_email and find_customer_by_name_company (lines         *)
(* 806-835).  A customer's id is its position in the store; 0 is None.  In *)
(* an address, "@" stands for the "@domain.tld" part.  A search answers    *)
(* with any selection of the store's customers, or with an HTTP error, or  *)
(* the request raises.  The specification resolves the buyer of one record *)
(* against any store.                                                      *)
(***************************************************************************)
MaxCustomers == 2      \* customers the store holds before the run

\* _lc (line 807); <<>> is None
lc(s) == Lower(Strip(s))

\* re.match(r"^[^@\s]+@[^@\s]+\.[^@\s]+$", buyer_email)  (line 918)
EmailValid(e) ==
    /\ Len(e) >= 2
    /\ e[Len(e)] = "@"
    /\ \A i \in 1..(Len(e) - 1) : e[i] # "@" /\ e[i] \notin Whitespace

BuyerEmails == { <<>>, <<"a", "@">>, <<"A", "@">>, <<"a">> }

\* a record's buyer fields; phone: its addresses carry a phone number
BuyerRecords ==
    [email : BuyerEmails, first : { <<>>, <<"B">> }, last : { <<"S">> },
     company : { CompanyName }, phone : BOOLEAN]

StoreCustomers ==
    { [email |-> <<"a", "@">>, first |-> <<"b">>, last |-> <<"S">>, company |-> <<"A", "c">>],
      [email |-> <<"b", "@">>, first |-> <<"B">>, last |-> <<"S">>, company |-> <<"A", "c">>],
      [email |-> <<"a", "a", "@">>, first |-> <<"B">>, last |-> <<"S">>, company |-> <<>>],
      [email |-> <<>>, first |-> <<>>, last |-> <<"S", " ">>, company |-> <<"a", "c">>] }

\* the answers of customers/search.json: the request raises, the status is
\* an error, or the answer lists the customers with the given ids
SearchResponses ==
    { [kind |-> k, ids |-> <<>>] : k \in {"raise", "not_ok"} } \cup
    { [kind |-> "list", ids |-> ids] :
        ids \in { q \in SeqsUpTo(1..Len(customers), Len(customers)) :
                    \A i, j \in 1..Len(q) : i < j => q[i] < q[j] } }

\* the search was not made (lines 877, 826)
NoSearch == [kind |-> "none", ids |-> <<>>]

\* any customer of the answer passes for the buyer
EmailMatches_Any(c, email) == TRUE

\* line 814
EmailMatches(c, email) == lc(c.email) = lc(email)

\* line 833
TripleMatches(c, first, last, company) ==
    /\ lc(c.first) = lc(first)
    /\ lc(c.last) = lc(last)
    /\ lc(c.company) = lc(company)

\* lines 812-816, 831-835: the first of the listed customers passing the
\* test, 0 if there is none or if not r.ok
FirstHit(resp, hits) ==
    IF resp.kind # "list" \/ hits = {} THEN 0
    ELSE resp.ids[CHOOSE i \in hits : \A j \in hits : i <= j]

\* find_customer_by_email (lines 809-816)
find_customer_by_email(email, resp) ==
    FirstHit(resp, { i \in 1..Len(resp.ids) : EmailMatches(customers[resp.ids[i]], email) })

\* lines 819-826: no search without a search term
HasTerms(first, last, company) == first # <<>> \/ last # <<>> \/ company # <<>>

\* find_customer_by_name_company (lines 818-835)
find_customer_by_name_company(first, last, company, resp) ==
    FirstHit(resp, { i \in 1..Len(resp.ids) :
                       TripleMatches(customers[resp.ids[i]], first, last, company) })

\* lines 917-921: the top-level keys of customer_body, and whether one of its
\* addresses carries a phone
CustomerBody(rec) ==
    [keys |-> {"first_name", "last_name", "tags", "company"}
                \cup (IF rec.email # <<>> /\ EmailValid(rec.email) THEN {"email"} ELSE {})
                \cup (IF rec.phone THEN {"addresses"} ELSE {}),
     addr_phone |-> rec.phone]

\* lines 932-937: reason holds the field names the 422 answer mentions
RetryBody(body, reason) ==
    [body EXCEPT !.keys =
        @ \ ((IF "email" \in reason /\ "email" \in body.keys THEN {"email"} ELSE {})
             \cup (IF "phone" \in reason /\ "phone" \in body.keys THEN {"phone"} ELSE {}))]

\* the customer the store makes of an accepted body
NewCustomer(rec, body) ==
    [email |-> IF "email" \in body.keys THEN rec.email ELSE <<>>,
     first |-> rec.first, last |-> rec.last, company |-> rec.company]

\* the answers of POST customers.json: 201, 422 whose text mentions the given
\* field names, or another error (raise_for_status at line 949, or a raise)
PostAnswers ==
    { [kind |-> "created", reason |-> {}], [kind |-> "error", reason |-> {}] } \cup
    { [kind |-> "422", reason |-> r] : r \in SUBSET {"email", "phone"} }

not_buyer == <<script_vars, loc_vars, contact_vars, co_vars, norm_vars, fetch_vars, rest_vars>>

BuyerEntry(rec, path, ret, er, nr, posts, reason) ==
    [rec |-> rec, path |-> path, ret |-> ret, er |-> er, nr |-> nr, posts |-> posts,
     reason |-> reason, pre |-> customers]

\* the loop body goes on (or continues with the next record) with the store
\* as given
BuyerDone(entry, store) ==
    /\ customers' = store
    /\ buyer_log' = <<entry>>
    /\ UNCHANGED <<pc, abort_by>>

\* a request raises; nothing catches it (lines 877-879, 923, 939, 949)
BuyerRaise(entry) ==
    /\ buyer_log' = <<entry>>
    /\ pc' = "crashed"
    /\ abort_by' = "customer"
    /\ UNCHANGED customers

\* lines 916-951: create the buyer, with one retry after a 422
CreateBuyer(rec, er, nr) ==
    LET body == CustomerBody(rec)
    IN  \E a1 \in PostAnswers :
          CASE a1.kind = "created" ->
                 BuyerDone(BuyerEntry(rec, "created", Len(customers) + 1, er, nr,
                                      <<body>>, {}),
                           Append(customers, NewCustomer(rec, body)))
            [] a1.kind = "error" ->
                 BuyerRaise(BuyerEntry(rec, "create_raise", -1, er, nr, <<body>>, {}))
            [] a1.kind = "422" ->
                 LET retry_body == RetryBody(body, a1.reason)
                     changed == retry_body # body
                 IN  IF ~changed
                        THEN BuyerDone(BuyerEntry(rec, "skipped", 0, er, nr, <<body>>,
                                                  a1.reason), customers)
                     ELSE \E a2 \in PostAnswers :
                            LET posts == <<body, retry_body>>
                            IN  CASE a2.kind = "created" ->
                                       BuyerDone(BuyerEntry(rec, "created_retry",
                                                     Len(customers) + 1, er, nr, posts,
                                                     a1.reason),
                                                 Append(customers,
                                                        NewCustomer(rec, retry_body)))
                                  [] a2.kind = "error" ->
                                       BuyerRaise(BuyerEntry(rec, "create_raise", -1, er, nr,
                                                             posts, a1.reason))
                                  [] a2.kind = "422" ->
                                       BuyerDone(BuyerEntry(rec, "skipped", 0, er, nr, posts,
                                                            a1.reason), customers)

\* lines 877-951 for one record
ResolveBuyer ==
    /\ pc = "buyer"
    /\ buyer_log = <<>>
    /\ \E rec \in BuyerRecords :
         \E er \in (IF rec.email # <<>> THEN SearchResponses ELSE {NoSearch}) :
           LET by_email == find_customer_by_email(rec.email, er)
           IN  IF er.kind = "raise"
                  THEN BuyerRaise(BuyerEntry(rec, "search_raise", -1, er, NoSearch, <<>>, {}))
               ELSE IF by_email # 0
                  THEN BuyerDone(BuyerEntry(rec, "reused_email", by_email, er, NoSearch,
                                            <<>>, {}), customers)
               ELSE \E nr \in (IF HasTerms(rec.first, rec.last, rec.company)
                                  THEN SearchResponses ELSE {NoSearch}) :
                      LET by_name == find_customer_by_name_company(rec.first, rec.last,
                                                                   rec.company, nr)
                      IN  IF nr.kind = "raise"
                             THEN BuyerRaise(BuyerEntry(rec, "search_raise", -1, er, nr,
                                                        <<>>, {}))
                          ELSE IF by_name # 0
                             THEN BuyerDone(BuyerEntry(rec, "reused_name", by_name, er, nr,
                                                       <<>>, {}), customers)
                          ELSE CreateBuyer(rec, er, nr)
    /\ UNCHANGED not_buyer

InitBuyer ==
    /\ ScriptIdle
    /\ pc = "buyer"
    /\ abort_by = "none"
    /\ customers \in SeqsUpTo(StoreCustomers, MaxCustomers)
    /\ buyer_log = <<>>
    /\ LocIdle
    /\ ContactIdle
    /\ CompanyIdle
    /\ NormIdle
    /\ FetchIdle
    /\ RestIdle

NextBuyer == ResolveBuyer

SpecBuyer == InitBuyer /\ [][NextBuyer]_vars

(***************************************************************************)
(* ensure_company with find_company_by_name and create_company (lines      *)
(* 237-277).  A company is its name; its id is its position in the store.  *)
(* The companies search answers with any selection of the store's          *)
(* companies, or the request raises.                                       *)
(***************************************************************************)
MaxCompanies == 2      \* companies the store holds before the run
MaxCompanyCalls == 2   \* ensure_company calls per run

\* the billToName values of the records
RequestedNames == { <<"A", "c">>, <<"a", "c", " ">>, <<"B">> }

ShopCompanyNames == { <<"A", "c">>, <<" ", "a", "C">>, <<"A", "c", "x">> }

CompanySearchResponses ==
    { [kind |-> "raise", ids |-> <<>>] } \cup
    { [kind |-> "list", ids |-> ids] :
        ids \in { q \in SeqsUpTo(1..Len(shop_companies), Len(shop_companies)) :
                    \A i, j \in 1..Len(q) : i < j => q[i] < q[j] } }

\* the cache is never hit
CompanyCached_Never(name) == FALSE

\* lines 243, 271-272
CompanyCached(name) == \E e \in company_ids : e[1] = name

CompanyCachedId(name) == (CHOOSE e \in company_ids : e[1] = name)[2]

\* line 250
CompanyNameMatches(node_name, name) == Lower(Strip(node_name)) = Lower(Strip(name))

\* lines 248-254: the first listed company whose name matches, 0 if none
FirstCompany(resp, name) ==
    LET hits == { i \in 1..Len(resp.ids) :
                    CompanyNameMatches(shop_companies[resp.ids[i]], name) }
    IN  IF hits = {} THEN 0 ELSE resp.ids[CHOOSE i \in hits : \A j \in hits : i <= j]

not_company == <<script_vars, loc_vars, contact_vars, buyer_vars, norm_vars, fetch_vars, rest_vars>>

CompanyEntry(name, path, ret, resp) ==
    [name |-> name, path |-> path, ret |-> ret, resp |-> resp, pre |-> shop_companies]

CompanyReturn(entry, store, cache) ==
    /\ shop_companies' = store
    /\ company_ids' = cache
    /\ company_log' = Append(company_log, entry)
    /\ UNCHANGED <<pc, abort_by>>

\* shopify_graphql raises, or create_company raises RuntimeError (lines
\* 261-265); nothing catches it at line 953
CompanyRaise(entry, store) ==
    /\ shop_companies' = store
    /\ company_log' = Append(company_log, entry)
    /\ pc' = "crashed"
    /\ abort_by' = "company"
    /\ UNCHANGED company_ids

\* one call of ensure_company(name) for a record with a billToName
EnsureCompanyCall ==
    /\ pc = "company_call"
    /\ Len(company_log) < MaxCompanyCalls
    /\ \E name \in RequestedNames :
         IF CompanyCached(name)
            THEN CompanyReturn(CompanyEntry(name, "cache", CompanyCachedId(name),
                                            [kind |-> "none", ids |-> <<>>]),
                               shop_companies, company_ids)
         ELSE \E resp \in CompanySearchResponses :
                LET found == FirstCompany(resp, name)
                    new == Len(shop_companies) + 1
                    put(cid) == { e \in company_ids : e[1] # name } \cup { <<name, cid>> }
                IN  IF resp.kind = "raise"
                       THEN CompanyRaise(CompanyEntry(name, "search_raise", -1, resp),
                                         shop_companies)
                    ELSE IF found # 0
                       THEN CompanyReturn(CompanyEntry(name, "found", found, resp),
                                          shop_companies, put(found))
                    ELSE \E cr \in MutOutcomes :
                           CASE cr = "ok" ->
                                  CompanyReturn(CompanyEntry(name, "created", new, resp),
                                                Append(shop_companies, name), put(new))
                             [] cr = "userErrors" ->
                                  CompanyRaise(CompanyEntry(name, "create_rejected", -1, resp),
                                               shop_companies)
                             [] cr = "raise" ->
                                  CompanyRaise(CompanyEntry(name, "create_raise", -1, resp),
                                               shop_companies)
    /\ UNCHANGED not_company

InitCompany ==
    /\ ScriptIdle
    /\ pc = "company_call"
    /\ abort_by = "none"
    /\ shop_companies \in SeqsUpTo(ShopCompanyNames, MaxCompanies)
    /\ company_ids = {}
    /\ company_log = <<>>
    /\ LocIdle
    /\ ContactIdle
    /\ BuyerIdle
    /\ NormIdle
    /\ FetchIdle
    /\ RestIdle

NextCompany == EnsureCompanyCall

SpecCompany == InitCompany /\ [][NextCompany]_vars

(***************************************************************************)
(* norm_po (lines 126-129) on spellings of one purchase-order number: po_b *)
(* is derived from po_a by inserting or deleting '#' and whitespace and by *)
(* changing the case of letters, and may be normalized in place.           *)
(***************************************************************************)
MaxPoLen == 3          \* length of the spelling the run starts from

PoChars == {"a", "A", "b", "#", " "}

SwapCase(c) ==
    CASE c = "a" -> "A" [] c = "A" -> "a" [] c = "b" -> "B" [] c = "B" -> "b" [] OTHER -> c

InsertAt(s, i, c) == SubSeq(s, 1, i) \o <<c>> \o SubSeq(s, i + 1, Len(s))

DeleteAt(s, i) == SubSeq(s, 1, i - 1) \o SubSeq(s, i + 1, Len(s))

not_norm == <<script_vars, pc, abort_by, loc_vars, contact_vars, buyer_vars, co_vars,
              fetch_vars,
              rest_vars>>

\* another spelling of the same number: one '#' or whitespace more or less,
\* or one letter in the other case
Respell ==
    /\ pc = "norm"
    /\ \/ \E i \in 0..Len(po_b), c \in {"#", " "} :
            /\ Len(po_b) <= MaxPoLen
            /\ po_b' = InsertAt(po_b, i, c)
       \/ \E i \in 1..Len(po_b) :
            /\ po_b[i] \in {"#", " "}
            /\ po_b' = DeleteAt(po_b, i)
       \/ \E i \in 1..Len(po_b) :
            /\ SwapCase(po_b[i]) # po_b[i]
            /\ po_b' = [po_b EXCEPT ![i] = SwapCase(po_b[i])]
    /\ UNCHANGED <<po_a, not_norm>>

\* po_norm = norm_po(po_number)  (line 864), applied to the spelling at hand
Normalize ==
    /\ pc = "norm"
    /\ po_b' = norm_po(po_b)
    /\ po_b' # po_b
    /\ UNCHANGED <<po_a, not_norm>>

InitNorm ==
    /\ ScriptIdle
    /\ pc = "norm"
    /\ abort_by = "none"
    /\ po_a \in SeqsUpTo(PoChars, MaxPoLen)
    /\ po_b = po_a
    /\ LocIdle
    /\ ContactIdle
    /\ BuyerIdle
    /\ CompanyIdle
    /\ FetchIdle
    /\ RestIdle

NextNorm == Respell \/ Normalize

SpecNorm == InitNorm /\ [][NextNorm]_vars

(***************************************************************************)
(* fetch_all_mt_orders (lines 509-554).  A source record is its dedup key  *)
(* (line 533).  The source answers a request with any page of at most      *)
(* limit records, with or without a total; request_with_retries raises     *)
(* when its tries are used up (lines 83-100).  The page size is scaled     *)
(* down from 50 to 2.                                                      *)
(***************************************************************************)
MaxFetchKeys == 3      \* distinct source records, and the largest total reported
MaxFetchPages == 3     \* requests of one fetch
SERVER_LIMIT == 2

FetchKeys == 1..MaxFetchKeys

\* payload.get("total"); -1 is a payload without total
FetchTotals == {-1} \cup 0..MaxFetchKeys

\* lines 532-537: the records of the batch whose key was not seen yet are
\* appended
RECURSIVE AppendNew(_, _)
AppendNew(all, batch) ==
    IF batch = <<>> THEN all
    ELSE AppendNew(IF \E i \in 1..Len(all) : all[i] = Head(batch)
                      THEN all ELSE Append(all, Head(batch)),
                   Tail(batch))

\* line 541
ReachedTotal(total, all) == total # -1 /\ Len(all) >= total

not_fetch == <<script_vars, loc_vars, contact_vars, buyer_vars, co_vars, norm_vars, rest_vars>>

\* one iteration of the while loop (lines 517-543)
FetchPage ==
    /\ pc = "fetching"
    /\ Len(fetch_log) < MaxFetchPages
    /\ \/ /\ pc' = "crashed"
          /\ abort_by' = "fetch"
          /\ UNCHANGED fetch_vars
       \/ \E batch \in SeqsUpTo(FetchKeys, SERVER_LIMIT), total \in FetchTotals :
            LET tr == IF total # -1 THEN total ELSE total_reported
                all == AppendNew(all_orders, batch)
            IN  /\ total_reported' = tr
                /\ fetch_log' = Append(fetch_log,
                       [offset |-> offset, limit |-> SERVER_LIMIT, fetched |-> Len(batch),
                        total |-> tr])
                /\ IF batch = <<>>
                      THEN pc' = "fetched" /\ UNCHANGED <<offset, all_orders>>
                      ELSE /\ all_orders' = all
                           /\ offset' = offset + SERVER_LIMIT
                           /\ pc' = IF ReachedTotal(tr, all) THEN "fetched" ELSE "fetching"
                /\ UNCHANGED abort_by
    /\ UNCHANGED not_fetch

InitFetch ==
    /\ ScriptIdle
    /\ pc = "fetching"
    /\ abort_by = "none"
    /\ offset = 0
    /\ all_orders = <<>>
    /\ total_reported = -1
    /\ fetch_log = <<>>
    /\ LocIdle
    /\ ContactIdle
    /\ BuyerIdle
    /\ CompanyIdle
    /\ NormIdle
    /\ RestIdle

NextFetch == FetchPage

SpecFetch == InitFetch /\ [][NextFetch]_vars

(***************************************************************************)
(* request_with_retries (lines 83-100) and shopify_graphql (lines 102-119) *)
(* on their own: a bounded number of calls, each HTTP attempt answered by  *)
(* the environment.  call_log keeps what the calls did, in order.          *)
(***************************************************************************)
MaxRetryCalls == 2

RETRY_COUNT == 3

RETRY_SLEEP_SECS == 2

\* requests.request / raise_for_status either go through or raise a
\* requests.RequestException (a transport error or an HTTP error status)
HttpOutcomes == {"ok", "ConnectionError", "HTTPError"}

not_retry == <<script_vars, abort_by, loc_vars, contact_vars, buyer_vars, co_vars,
               norm_vars, fetch_vars, tag_vars>>

CallEvent(api, ev, n, out, secs) ==
    [api |-> api, ev |-> ev, n |-> n, out |-> out, secs |-> secs]

CallsStarted == Cardinality({i \in 1..Len(call_log) : call_log[i].ev = "call"})

\* line 98, waiting as line 98 has it after every failed attempt
ShouldSleep_Always(n) == TRUE

\* line 98: if attempt < RETRY_COUNT
ShouldSleep(n) == n < RETRY_COUNT

\* line 99: time.sleep(RETRY_SLEEP_SECS * attempt)
SleepSecs(n) == RETRY_SLEEP_SECS * n

\* range(1, RETRY_COUNT + 1) of line 85 has nothing after attempt n
RangeExhausted(n) == n >= RETRY_COUNT

\* a caller enters request_with_retries: last = None, the loop starts at 1
RetryBegin ==
    /\ pc = "http_idle"
    /\ CallsStarted < MaxRetryCalls
    /\ attempt' = 1
    /\ last_exc' = "none"
    /\ call_log' = Append(call_log, CallEvent("source", "call", 0, "", 0))
    /\ pc' = "mt_request"
    /\ UNCHANGED not_retry

\* lines 86-89: one requests.request; a response that passes
\* raise_for_status is returned at once, a RequestException is kept in last
RetryAttempt ==
    /\ pc = "mt_request"
    /\ \E out \in HttpOutcomes :
         IF out = "ok"
         THEN /\ call_log' = call_log \o
                    << CallEvent("source", "attempt", attempt, out, 0),
                       CallEvent("source", "return", attempt, out, 0) >>
              /\ attempt' = 0
              /\ last_exc' = "none"
              /\ pc' = "http_idle"
         ELSE /\ call_log' = Append(call_log, CallEvent("source", "attempt", attempt, out, 0))
              /\ last_exc' = out
              /\ pc' = "mt_except"
              /\ UNCHANGED attempt
    /\ UNCHANGED not_retry

\* lines 98-99 and the loop header: the wait before the next attempt, then
\* the next attempt or the end of the range
RetryBackoff ==
    /\ pc = "mt_except"
    /\ call_log' = IF ShouldSleep(attempt)
                   THEN Append(call_log,
                               CallEvent("source", "sleep", attempt, "", SleepSecs(attempt)))
                   ELSE call_log
    /\ IF RangeExhausted(attempt)
       THEN pc' = "mt_raise" /\ UNCHANGED attempt
       ELSE pc' = "mt_request" /\ attempt' = attempt + 1
    /\ UNCHANGED <<last_exc, not_retry>>

\* line 100: raise last
RetryRaise ==
    /\ pc = "mt_raise"
    /\ call_log' = Append(call_log, CallEvent("source", "raise", attempt, last_exc, 0))
    /\ attempt' = 0
    /\ last_exc' = "none"
    /\ pc' = "http_idle"
    /\ UNCHANGED not_retry

\* shopify_graphql, lines 112-119: one requests.post; raise_for_status and
\* the exception of the post itself are not caught
ShopifyGraphql ==
    /\ pc = "http_idle"
    /\ CallsStarted < MaxRetryCalls
    /\ \E out \in HttpOutcomes :
         call_log' = call_log \o
             << CallEvent("target", "call", 0, "", 0),
                CallEvent("target", "attempt", 1, out, 0),
                CallEvent("target", IF out = "ok" THEN "return" ELSE "raise", 1, out, 0) >>
    /\ UNCHANGED <<attempt, last_exc, pc, not_retry>>

InitRetry ==
    /\ ScriptIdle
    /\ pc = "http_idle"
    /\ abort_by = "none"
    /\ RetryIdle
    /\ LocIdle
    /\ ContactIdle
    /\ BuyerIdle
    /\ CompanyIdle
    /\ NormIdle
    /\ FetchIdle
    /\ TagIdle

NextRetry == RetryBegin \/ RetryAttempt \/ RetryBackoff \/ RetryRaise \/ ShopifyGraphql

SpecRetry == InitRetry /\ [][NextRetry]_vars

(***************************************************************************)
(* The tags of a draft (lines 736-748) on their own: one source record,    *)
(* its tags built once.                                                    *)
(***************************************************************************)
\* the identifiers a source record may hold besides recordID
PartnerIds == { <<>>, <<"7">>, <<"7", "1">> }

TagOrders ==
    [recordID : RecordIds, repGroupID : PartnerIds, retailerID : PartnerIds,
     manufacturerID : PartnerIds]

not_tag == <<script_vars, abort_by, loc_vars, contact_vars, buyer_vars, co_vars,
             norm_vars, fetch_vars, retry_vars>>

BuildDraftTags ==
    /\ pc = "tags"
    /\ draft_tags' = BuildTags(tag_order)
    /\ pc' = "tagged"
    /\ UNCHANGED <<tag_order, not_tag>>

InitTags ==
    /\ ScriptIdle
    /\ pc = "tags"
    /\ abort_by = "none"
    /\ tag_order \in TagOrders
    /\ draft_tags = <<>>
    /\ LocIdle
    /\ ContactIdle
    /\ BuyerIdle
    /\ CompanyIdle
    /\ NormIdle
    /\ FetchIdle
    /\ RetryIdle

NextTags == BuildDraftTags

SpecTags == InitTags /\ [][NextTags]_vars

(***************************************************************************)
(* Properties                                                              *)
(***************************************************************************)
KeyOf(i) == norm_po(open_orders[i].po)

\* C1: within one run, no two records with the same normalized PO key both
\* get a draft created, whatever happened to the earlier records of that key.
C1_OneDraftPerKey ==
    \A i, j \in 1..Len(created) :
        i # j => KeyOf(created[i].rec) # KeyOf(created[j].rec)

\* two records spelling the same key differently; the first got the draft and
\* the loop has been through the second
C1_Witness ==
    /\ pc = "done"
    /\ Len(open_orders) = 2
    /\ open_orders[1].po # open_orders[2].po
    /\ KeyOf(1) = KeyOf(2)
    /\ Len(created) = 1
    /\ created[1].rec = 1

\* C2: a second run over the same source records, with no call failing in
\* either run, creates no draft.
C2_RerunCreatesNothing == (run = 2 /\ ~fault) => created = <<>>

MatchInStore ==
    \/ \E o \in orders : ~o.cancelled /\ norm_po(o.po) = target_po
    \/ \E d \in Range(drafts) : norm_po(d.po) = target_po

RestReachableMatch ==
    \E s \in Range(RestStatuses) :
        \E k \in 1..Len(DraftsOfStatus(s)) :
            /\ k <= MAX_PAGES_PER_STATUS * REST_PAGE_LIMIT
            /\ norm_po(DraftsOfStatus(s)[k].po) # <<>>
            /\ norm_po(DraftsOfStatus(s)[k].po) = target_po

Detectable == delivered \/ (~rest_fault /\ RestReachableMatch)

HasExactTag(d) == \E i \in 1..Len(d.tags) : d.tags[i] = RecordTag(mt_record_id)

GenuineMatch ==
    \/ \E o \in orders : norm_po(o.po) = target_po
    \/ \E d \in Range(drafts) : norm_po(d.po) = target_po
    \/ mt_record_id # <<>> /\ \E d \in Range(drafts) : HasExactTag(d)

\* C4: the check returns true only if an order or draft of the store has the
\* record's normalized PO or a draft carries the tag of exactly this record.
C4_NoFalsePositive == result = "true" => GenuineMatch

StageRank(q) ==
    CASE q = "order" -> 1
      [] q = "dg_quoted" -> 2
      [] q = "dg_unquoted" -> 3
      [] q = "dg_tag" -> 4
      [] q = "rest_open" -> 5
      [] q = "rest_invoice_sent" -> 6

IsRest(q) == q \in {"rest_open", "rest_invoice_sent"}

\* the queries were issued in stage order, each graph query at most once
StageOrdered ==
    \A i \in 1..Len(qlog) - 1 :
        \/ StageRank(qlog[i].q) < StageRank(qlog[i + 1].q)
        \/ qlog[i].q = qlog[i + 1].q /\ IsRest(qlog[i].q)

\* C5: the stages run in the order finalized orders, draft graph search, REST
\* scan; once a stage reports a match the check returns true and no further
\* query is issued.
C5_OrderedShortCircuit ==
    /\ StageOrdered
    /\ qlog # <<>> => qlog[1].q = "order"
    /\ hit_len # -1 => (pc = "ret" /\ result = "true" /\ Len(qlog) = hit_len)

\* a match at the first draft query, with the later stages left unqueried
C5_Witness == hit_len = 2 /\ result = "true" /\ Len(qlog) = 2

\* where the check stands right after query q failed
AfterFailure(q) ==
    CASE q = "order" -> {"dg1"}
      [] q \in {"dg_quoted", "dg_unquoted", "dg_tag"} -> {"rest"}
      [] q = "rest_open" -> {"rest"}
      [] q = "rest_invoice_sent" -> {"ret"}

\* C6: a failed query is swallowed and the next stage (or REST status) runs;
\* the check raises nothing, returns true only on a genuine match and false
\* when every stage is exhausted without a match.
C6_FailureSemantics ==
    /\ \A i \in 1..Len(qlog) :
          ~qlog[i].ok =>
              IF i < Len(qlog)
                 THEN StageRank(qlog[i + 1].q) > StageRank(qlog[i].q)
                 ELSE pc \in AfterFailure(qlog[i].q)
    /\ pc # "crashed"
    /\ result = "true" => GenuineMatch
    /\ (pc = "ret" /\ hit_len = -1) => result = "false"

RestRequests(s) == Cardinality({ i \in 1..Len(qlog) : qlog[i].q = "rest_" \o s })

\* C7: the REST scan issues at most MAX_PAGES_PER_STATUS page requests per
\* status, also when every page carries a next link, and the check returns.
C7_RestScanBounded ==
    /\ [](pages <= MAX_PAGES_PER_STATUS
            /\ \A s \in Range(RestStatuses) : RestRequests(s) <= MAX_PAGES_PER_STATUS)
    /\ <>(pc = "ret")

\* both statuses scanned up to the cap without a match
C7_Witness ==
    /\ pc = "ret"
    /\ result = "false"
    /\ \A s \in Range(RestStatuses) : RestRequests(s) = MAX_PAGES_PER_STATUS

\* C8: no failure of a call to the store ends the run; every record is
\* completed or skipped.
C8_NoCallAbortsRun == pc # "crashed"

\* C9: a rejected companyCreate costs only the current record; the run goes
\* on with the next one.
C9_CompanyRejectionKeepsRunning == abort_by # "companyCreate rejected"

\* C10: a record whose draft creation failed has no report row, and the loop
\* went on to the next record (or to the end of the run).
C10_DraftFailureSkipsRecord ==
    \A i \in create_failed :
        /\ \A k \in 1..Len(exported_rows) :
               exported_rows[k].mt_recordID # open_orders[i].rid
        /\ abort_by # "draftOrderCreate"
        /\ idx > i \/ pc \in {"export", "done"}

\* the creation failed for the first record and the loop is at the second
C10_Witness == 1 \in create_failed /\ idx = 2 /\ pc = "customer"

\* C11: no failure of the permission grant (role not found, role lookup
\* failing, role assignment failing or answering userErrors) stops a record
\* whose contact was resolved: it goes on to the duplicate check.
C11_GrantFailureNonBlocking ==
    ~(pc = "crashed" /\ abort_by = "grant" /\ contact_id # "none")

\* the listing after the k-th ensure_company_location call
LocPost(k) == IF k < Len(loc_log) THEN loc_log[k + 1].pre ELSE locations

IsBlank(l) == ~l.ship /\ ~l.bill

\* C12: a call that finds the company with exactly one location, unnamed or
\* generically named (empty, the company name, or the default label) and
\* without addresses, returns that location, creates no second one, and
\* leaves it with its address populated.
C12_StubReusedAndPopulated ==
    \A k \in 1..Len(loc_log) :
        LET e == loc_log[k]
            n == Strip(e.pre[1].name)
        IN  (/\ e.ret # -1
             /\ Len(e.pre) = 1
             /\ IsBlank(e.pre[1])
             /\ \/ n = <<>>
                \/ Lower(n) = Lower(CompanyName)
                \/ Lower(n) = Lower(DefaultLabel))
            => /\ e.ret = 1
               /\ Len(LocPost(k)) = 1
               /\ LocPost(k)[1].ship

\* the locations of the listing pre whose name is exactly the desired one
ExactIds(pre, name) ==
    { i \in 1..Len(pre) : Strip(pre[i].name) = Strip(DesiredName(name)) }

C14_AtMostOneBlankLocation ==
    Cardinality({ i \in 1..Len(locations) : IsBlank(locations[i]) }) <= 1

\* the contacts of a listing that link the customer
LinksOf(list, target) == { i \in 1..Len(list) : list[i] = target }

\* the pages a full scan of a listing takes
PagesOf(list) ==
    IF Len(list) = 0 THEN 1 ELSE (Len(list) + ContactsPerPage - 1) \div ContactsPerPage

\* C15: no customer is linked by two contacts of the company;
\* companyAssignCustomerAsContact is issued only after every page was scanned
\* and no contact linked the customer; on an "already associated" rejection
\* the contacts are scanned once more and the existing contact is returned.
C15_OneContactPerCustomer ==
    /\ \A c \in CustomerIds : Cardinality(LinksOf(contacts, c)) <= 1
    /\ \A k \in 1..Len(contact_log) :
         LET e == contact_log[k]
         IN  /\ e.assigned => /\ e.scanned = PagesOf(e.pre)
                              /\ LinksOf(e.pre, e.target) = {}
             /\ e.path = "found" => e.ret \in LinksOf(e.pre, e.target)
             /\ e.path = "already" =>
                    /\ e.rescans = 1
                    /\ LinksOf(e.atassign, e.target) # {} =>
                           e.ret \in LinksOf(e.atassign, e.target)

\* the customer was linked by someone else after a scan of two pages found no
\* contact of theirs; the mutation was refused and the second scan found it
C15_Witness ==
    /\ Len(contact_log) >= 1
    /\ contact_log[1].path = "already"
    /\ Len(contact_log[1].pre) = 2
    /\ contact_log[1].scanned = 2
    /\ contact_log[1].ret = 3
    /\ Cardinality(LinksOf(contacts, contact_log[1].target)) = 1

\* the fields of the first body that the 422 answer names
Offending(e) ==
    (IF "email" \in e.reason /\ "email" \in e.posts[1].keys THEN {"email"} ELSE {})
        \cup (IF "phone" \in e.reason /\ e.posts[1].addr_phone THEN {"phone"} ELSE {})

\* C16: a buyer creation rejected (422) over its email and/or phone is posted
\* once more without the offending field(s); the record goes on with the new
\* buyer if that is accepted and is skipped if it is rejected again.
C16_RejectedCreationRetriedOnce ==
    \A k \in 1..Len(buyer_log) :
        LET e == buyer_log[k]
        IN  (e.posts # <<>> /\ Offending(e) # {})
            => /\ Len(e.posts) = 2
               /\ "email" \in Offending(e) => "email" \notin e.posts[2].keys
               /\ "phone" \in Offending(e) => ~e.posts[2].addr_phone
               /\ e.path \in {"created_retry", "skipped", "create_raise"}
               /\ e.path = "created_retry" => /\ e.ret = Len(e.pre) + 1
                                              /\ Len(customers) = e.ret
               /\ e.path = "skipped" => e.ret = 0 /\ customers = e.pre /\ pc # "crashed"

\* the customers a search answer lists
Listed(resp) == { resp.ids[i] : i \in 1..Len(resp.ids) }

EmailExact(e, i) == Lower(Strip(e.pre[i].email)) = Lower(Strip(e.rec.email))

TripleExact(e, i) ==
    /\ Lower(Strip(e.pre[i].first)) = Lower(Strip(e.rec.first))
    /\ Lower(Strip(e.pre[i].last)) = Lower(Strip(e.rec.last))
    /\ Lower(Strip(e.pre[i].company)) = Lower(Strip(e.rec.company))

\* C17: a buyer is reused only if the email search listed them and their
\* email equals the record's up to case, or else the name search listed them
\* and first name, last name and company all equal the record's up to case;
\* the email match has precedence; a buyer is created only when neither
\* search listed such a customer.
C17_ExactBuyerMatchOnly ==
    \A k \in 1..Len(buyer_log) :
        LET e == buyer_log[k]
            email_hit == \E i \in Listed(e.er) : EmailExact(e, i)
            name_hit == \E i \in Listed(e.nr) : TripleExact(e, i)
        IN  /\ e.path = "reused_email" => e.ret \in Listed(e.er) /\ EmailExact(e, e.ret)
            /\ email_hit => e.path = "reused_email"
            /\ e.path = "reused_name" => e.ret \in Listed(e.nr) /\ TripleExact(e, e.ret)
            /\ name_hit => e.path \in {"reused_email", "reused_name"}
            /\ e.posts # <<>> => ~email_hit /\ ~name_hit

\* the email search listed only a customer with another address, and the name
\* search listed a customer whose names differ from the record's by case only
C17_Witness ==
    /\ Len(buyer_log) = 1
    /\ buyer_log[1].path = "reused_name"
    /\ buyer_log[1].er.ids # <<>>
    /\ buyer_log[1].pre[buyer_log[1].ret].first # buyer_log[1].rec.first

\* the listed companies whose name is the requested one up to case and
\* surrounding whitespace
ExactCompanies(e) ==
    { e.resp.ids[i] : i \in { j \in 1..Len(e.resp.ids) :
          Lower(Strip(e.pre[e.resp.ids[j]])) = Lower(Strip(e.name)) } }

CreateIssued(e) == e.path \in {"created", "create_rejected", "create_raise"}

\* C18: ensure_company reuses a listed company only if its name equals the
\* requested one up to case and surrounding whitespace, issues companyCreate
\* only when no listed company does, at most once per requested name in a
\* run, and answers later resolutions of the name with the same id.
C18_CompanyReuseAndSingleCreate ==
    /\ \A k \in 1..Len(company_log) :
         LET e == company_log[k]
         IN  /\ e.path = "found" => e.ret \in ExactCompanies(e)
             /\ CreateIssued(e) => ExactCompanies(e) = {}
             /\ (e.resp.kind = "list" /\ ExactCompanies(e) = {}) => CreateIssued(e)
             /\ e.ret > 0 => \A j \in (k + 1)..Len(company_log) :
                    company_log[j].name = e.name =>
                        company_log[j].path = "cache" /\ company_log[j].ret = e.ret
    /\ \A n \in RequestedNames :
         Cardinality({ k \in 1..Len(company_log) :
                         company_log[k].name = n /\ CreateIssued(company_log[k]) }) <= 1

\* a company was created for a name no listed company had, and the next
\* resolution of that name came from the cache
C18_Witness ==
    /\ Len(company_log) = 2
    /\ company_log[1].path = "created"
    /\ company_log[1].resp.ids # <<>>
    /\ company_log[2].name = company_log[1].name
    /\ company_log[2].path = "cache"

\* C19: two spellings that differ only by '#', whitespace and letter case
\* have the same norm_po, and norm_po of a normalized spelling is that
\* spelling.
C19_NormPoCanonical ==
    /\ norm_po(po_b) = norm_po(po_a)
    /\ norm_po(norm_po(po_a)) = norm_po(po_a)
    /\ norm_po(norm_po(po_b)) = norm_po(po_b)

\* "#A b" against "ab": a '#', a blank and a capital apart
C19_Witness ==
    /\ po_a = <<"a", "b">>
    /\ po_b = <<"#", "A", " ", "b">>
    /\ norm_po(po_b) = <<"A", "B">>

\* the records received in the first k pages
RECURSIVE FetchedUpTo(_)
FetchedUpTo(k) == IF k = 0 THEN 0 ELSE FetchedUpTo(k - 1) + fetch_log[k].fetched

\* page k was empty, or with it the records received reached the total the
\* source reports
FetchComplete(k) ==
    \/ fetch_log[k].fetched = 0
    \/ fetch_log[k].total # -1 /\ FetchedUpTo(k) >= fetch_log[k].total

\* C20: the fetch asks for offsets 0, limit, 2*limit, ... with the same
\* limit, and stops with the first page that is empty or brings the number
\* of records received up to the reported total, so it ends for every source
\* that reports a total, also one whose pages repeat records.
C20_FetchStopsAtTotal ==
    \A k \in 1..Len(fetch_log) :
        /\ fetch_log[k].limit = SERVER_LIMIT
        /\ fetch_log[k].offset = (k - 1) * SERVER_LIMIT
        /\ FetchComplete(k) => k = Len(fetch_log) /\ pc # "fetching"

\* the event after position i of call_log, if the log goes that far
Follows(i, ev, n) ==
    i + 1 <= Len(call_log) =>
        /\ call_log[i + 1].ev = ev
        /\ call_log[i + 1].n = n
        /\ call_log[i + 1].api = call_log[i].api

\* C21: a source-API call makes at most RETRY_COUNT attempts, numbered from
\* 1; a successful attempt is returned at once; a failed attempt before the
\* last is followed by a wait of RETRY_SLEEP_SECS * attempt and the next
\* attempt; the last failed attempt is followed by no wait and by the raise of
\* its own error.  A target graph call makes one attempt and returns it or
\* raises its error.
C21_RetryDiscipline ==
    \A i \in 1..Len(call_log) :
        LET e == call_log[i] IN
        /\ e.ev = "call" => Follows(i, "attempt", 1)
        /\ e.ev = "attempt" /\ e.out = "ok" =>
              /\ Follows(i, "return", e.n)
        /\ e.ev = "attempt" => e.n <= (IF e.api = "source" THEN RETRY_COUNT ELSE 1)
        /\ e.ev = "attempt" /\ e.out # "ok" /\ e.api = "target" =>
              /\ Follows(i, "raise", 1)
              /\ i + 1 <= Len(call_log) => call_log[i + 1].out = e.out
        /\ e.ev = "attempt" /\ e.out # "ok" /\ e.api = "source" /\ e.n < RETRY_COUNT =>
              /\ Follows(i, "sleep", e.n)
              /\ i + 1 <= Len(call_log) => call_log[i + 1].secs = RETRY_SLEEP_SECS * e.n
              /\ i + 1 <= Len(call_log) => Follows(i + 1, "attempt", e.n + 1)
        /\ e.ev = "attempt" /\ e.out # "ok" /\ e.api = "source" /\ e.n = RETRY_COUNT =>
              /\ Follows(i, "raise", e.n)
              /\ i + 1 <= Len(call_log) => call_log[i + 1].out = e.out
        /\ e.ev \in {"return", "raise"} /\ i + 1 <= Len(call_log) =>
              call_log[i + 1].ev = "call"

\* one source call went through all its attempts with growing waits and
\* raised, another returned on a later attempt, and a graph call failed
C21_Witness ==
    /\ \E i \in 1..Len(call_log) :
         /\ call_log[i].ev = "raise"
         /\ call_log[i].api = "source"
         /\ call_log[i].n = RETRY_COUNT
    /\ \E i \in 1..Len(call_log) :
         /\ call_log[i].ev = "raise"
         /\ call_log[i].api = "target"

\* C22: a draft creation request names the company (with contact and
\* location) as purchasing entity exactly when the loop resolved all three for
\* the record, and names the buyer otherwise; it is never sent without either.
C22_PurchasingEntityMatchesResolution ==
    \A i \in 1..Len(draft_req) :
        LET r == draft_req[i]
            full == r.company # "none" /\ r.contact # "none" /\ r.location # "none"
        IN /\ r.entity = "purchasingCompany" <=> full
           /\ ~full => r.entity = "customerId"
           /\ open_orders[r.rec].co = "" => r.entity = "customerId"

\* a request for a record whose company was resolved but not its location or
\* contact went out with the buyer as purchasing entity
C22_Witness ==
    /\ draft_req # <<>>
    /\ draft_req[1].company # "none"
    /\ draft_req[1].contact = "none"
    /\ draft_req[1].entity = "customerId"

\* the tags of draft_tags that start with the given prefix
TagsWith(prefix) == { i \in 1..Len(draft_tags) : draft_tags[i][1] = prefix }

\* the tag of the prefix is there exactly when the record has the value, and
\* then it is the prefix followed by the value
CarriesIff(prefix, value) ==
    /\ TagsWith(prefix) # {} <=> value # <<>>
    /\ \A i \in TagsWith(prefix) : draft_tags[i] = <<prefix>> \o value

\* C23: the tags of a created draft start with the classification tag and
\* the identifier tag of the record, hold the rep-group, retailer and
\* manufacturer tags exactly for the values the record has, and are matched
\* by the tag test of a duplicate check made with the record's id.
C23_DraftTagsIdentifyRecord ==
    pc = "tagged" =>
        /\ draft_tags[1] = <<"markettime">>
        /\ draft_tags[2] = <<"mt_recordID:">> \o RecordIdStr(tag_order.recordID)
        /\ CarriesIff("mt_repGroupID:", tag_order.repGroupID)
        /\ CarriesIff("mt_retailerID:", tag_order.retailerID)
        /\ CarriesIff("mt_manufacturerID:", tag_order.manufacturerID)
        /\ tag_order.recordID # <<>> => TagMatches(tag_order.recordID, draft_tags)

\* a record with a retailer id and without rep group got its tags
C23_Witness ==
    /\ pc = "tagged"
    /\ tag_order.recordID = <<"1", "2">>
    /\ tag_order.repGroupID = <<>>
    /\ tag_order.retailerID # <<>>
    /\ Len(draft_tags) = 3

\* C24: the rows collected for the report are the drafts the run created,
\* one row each with the record's id and the draft's id, in creation order;
\* no report file exists before the loop has ended; what is written then is
\* these rows, and nothing is written when there are none.
C24_ReportListsCreatedDrafts ==
    /\ Len(exported_rows) = Len(created)
    /\ \A i \in 1..Len(created) :
         /\ exported_rows[i].mt_recordID = open_orders[created[i].rec].rid
         /\ exported_rows[i].draft = created[i].draft
         /\ created[i].draft \in 1..Len(drafts)
         /\ \A j \in 1..Len(created) : i < j => created[i].rec < created[j].rec
    /\ pc \notin {"done", "crashed"} => csv = "none"
    /\ pc = "done" /\ created = <<>> => csv = "none"
    /\ pc = "done" /\ created # <<>> => csv = exported_rows

\* a run that created two drafts has written its report
C24_Witness ==
    /\ pc = "done"
    /\ Len(created) = 2
    /\ Len(exported_rows) = 2

\* C25: every draft creation request is sent after the duplicate check of the
\* same iteration has answered false, whatever the record's poNumber.
C25_CreateOnlyAfterNegativeCheck ==
    \A i \in 1..Len(draft_req) : draft_req[i].check = "false"

\* the k-th call read the listing and found the single blank stub, with no
\* location of the desired name
StubCase(k) ==
    LET e == loc_log[k]
        n == Strip(e.pre[1].name)
    IN  /\ e.path \notin {"cache", "exact", "fetch_raise"}
        /\ Len(e.pre) = 1
        /\ IsBlank(e.pre[1])
        /\ \/ Lower(n) = Lower(CompanyName)
           \/ Lower(n) = Lower(DefaultLabel)

\* C26: a call that reuses the single blank stub returns the stub's id
\* whether or not the rename and the address assignment went through, creates
\* no location, and every later call for the same name answers that id from
\* the cache, again creating nothing.
C26_StubReuseSurvivesFailedRename ==
    \A k \in 1..Len(loc_log) :
        StubCase(k) =>
            /\ loc_log[k].path = "stub"
            /\ loc_log[k].ret = 1
            /\ Len(LocPost(k)) = 1
            /\ \A j \in (k + 1)..Len(loc_log) :
                   loc_log[j].name = loc_log[k].name =>
                       /\ loc_log[j].path = "cache"
                       /\ loc_log[j].ret = 1
                       /\ LocPost(j) = loc_log[j].pre

\* the stub was reused for another name, kept its old name and got no address
\* (rename and assignment failed), and the name was then resolved again
C26_Witness ==
    /\ Len(loc_log) = 2
    /\ StubCase(1)
    /\ loc_log[1].order.ship1
    /\ Strip(loc_log[1].pre[1].name) # Strip(DesiredName(loc_log[1].name))
    /\ loc_log[2].pre[1] = loc_log[1].pre[1]
    /\ loc_log[2].name = loc_log[1].name
    /\ loc_log[2].ret = 1

IsDraftGraph(q) == q \in {"dg_quoted", "dg_unquoted", "dg_tag"}

\* the query issued after the i-th one is nxt, or the check stands at
\* position at when the i-th is the last so far
ThenQuery(i, nxt, at) ==
    IF i < Len(qlog) THEN qlog[i + 1].q = nxt ELSE pc = at

\* C27: the draft graph stage asks the quoted PO query, then the unquoted
\* one, then the tag query if the record has an id; a hit ends the check with
\* true and no further query; a failed query is followed by no other query of
\* the stage, which goes on to the REST scan as after the answer false.
C27_DraftGraphOrderAndAbort ==
    \A i \in 1..Len(qlog) :
        LET e == qlog[i] IN
        /\ e.q = "dg_quoted" => i > 1 /\ qlog[i - 1].q = "order"
        /\ e.q = "dg_unquoted" => i > 1 /\ qlog[i - 1].q = "dg_quoted" /\ qlog[i - 1].ok
        /\ e.q = "dg_tag" =>
              /\ i > 1 /\ qlog[i - 1].q = "dg_unquoted" /\ qlog[i - 1].ok
              /\ mt_record_id # <<>>
        /\ IsDraftGraph(e.q) /\ hit_len = i =>
              /\ e.ok
              /\ Len(qlog) = i
              /\ pc = "ret"
              /\ result = "true"
        /\ IsDraftGraph(e.q) /\ ~e.ok =>
              /\ hit_len # i
              /\ i < Len(qlog) => ~IsDraftGraph(qlog[i + 1].q)
              /\ ThenQuery(i, "rest_open", "rest")
              /\ i = Len(qlog) => result # "true"
        /\ e.q = "dg_quoted" /\ e.ok /\ hit_len # i => ThenQuery(i, "dg_unquoted", "dg2")
        /\ e.q = "dg_unquoted" /\ e.ok /\ hit_len # i =>
              IF mt_record_id # <<>>
                 THEN ThenQuery(i, "dg_tag", "dg3")
                 ELSE ThenQuery(i, "rest_open", "rest")

\* for a record with an id the quoted query failed: the unquoted and the tag
\* query were left out and the REST scan is next
C27_Witness ==
    /\ Len(qlog) = 2
    /\ qlog[2].q = "dg_quoted"
    /\ ~qlog[2].ok
    /\ mt_record_id # <<>>
    /\ pc = "rest"

\* C28: within a run the seen-set changes only by gaining the key of the
\* current record, and only in the step in which the duplicate check returned
\* true for it or its draft was created; and a record whose key is not in the
\* set is not skipped at the head of the loop.
C28_SeenOnlyOnExistsOrCreated ==
    [][ /\ (seen_pos' # seen_pos /\ run' = run) =>
             /\ seen_pos' = seen_pos \cup {KeyOf(idx)}
             /\ \/ pc = "ret" /\ result = "true"
                \/ pc = "create" /\ Len(created') = Len(created) + 1
        /\ (pc = "begin" /\ KeyOf(idx) \notin seen_pos /\ pc' # pc) => pc' = "customer"
        /\ (pc = "customer" /\ pc' \in {"begin", "export"}) => seen_pos' = seen_pos
        /\ (pc = "create" /\ create_failed' # create_failed) => seen_pos' = seen_pos
      ]_vars

\* the draft of the first record failed, its key was not marked, and the
\* second record with the same key is past the head of the loop
C28_Witness ==
    /\ idx = 2
    /\ 1 \in create_failed
    /\ KeyOf(1) = KeyOf(2)
    /\ KeyOf(1) \notin seen_pos
    /\ pc = "create"

\* what the run holds of the target and of its own results
TargetAndReport ==
    <<orders, drafts, companies, company_cache, exported_rows, csv, created, create_failed,
      seen_pos, comp_vars>>

\* C29: the iteration of a record whose key is in the seen-set ends in the
\* step that begins it: the loop stands at the next record (or after the
\* loop), no call was made for the record, and the target state, the caches
\* and the report are as before.
C29_SeenRecordTouchesNothing ==
    [][ (pc = "begin" /\ KeyOf(idx) \in seen_pos) =>
            /\ pc' \in {"begin", "export"}
            /\ pc' = "begin" <=> idx' = idx + 1
            /\ pc' = "export" <=> idx = Len(open_orders)
            /\ UNCHANGED TargetAndReport
            /\ UNCHANGED fault
            /\ customer_id' = "none"
            /\ result' = "none"
            /\ qlog' = <<>>
      ]_vars

\* the first record got its draft and the second, spelling the same key
\* differently, was passed over: the loop is through with one draft
C29_Witness ==
    /\ pc = "export"
    /\ idx = 2
    /\ open_orders[1].po # open_orders[2].po
    /\ KeyOf(1) = KeyOf(2)
    /\ Len(created) = 1
    /\ created[1].rec = 1
    /\ create_failed = {}
    /\ ~fault

\* C30: for a record whose poNumber normalizes to the empty key, a positive
\* answer of the duplicate check never comes from comparing PO numbers: it
\* comes from the tag query or from a draft that carries the record's tag.
C30_EmptyKeyNeverMatchesByPO ==
    (target_po = <<>> /\ hit_len # -1) =>
        /\ qlog[hit_len].q # "order"
        /\ \/ qlog[hit_len].q = "dg_tag"
           \/ \E d \in Range(drafts) : TagBlobMatches(d.tags)

====
